---- MODULE Spec2Model ----
(***************************************************************************)
(* yaraprocessor.Processor: a wrapper that feeds a data stream to a rule   *)
(* matcher in one of three processing modes (raw, fixed_buffer,            *)
(* sliding_window) and translates the matcher's local string offsets into  *)
(* stream offsets.                                                         *)
(*                                                                         *)
(* Bytes are modelled as one-character strings, byte strings as sequences  *)
(* of them.  Every public operation (assignment to the data property,      *)
(* analyze, clear_results) is one atomic action; the matcher invocations   *)
(* of the last operation are kept in last.calls, the chunks analyzed by    *)
(* the setter's loop in the history variable dispatched.  A second         *)
(* specification, SpecLoop, runs the setter's loop one iteration at a time. *)
(***************************************************************************)
EXTENDS Integers, Sequences, FiniteSets

\* ---------------------------------------------------------------- bounds
MaxStream == 4      \* longest stream (buffer) explored
MaxSize == 3        \* largest buffer_size
MaxStep == 2        \* largest window_step
MaxAnalyze == 2     \* explicit analyze calls per session

Alphabet == {"a", "b"}

\* byte strings of length lo..hi
Bytes(lo, hi) == UNION {[1..k -> Alphabet] : k \in lo..hi}

Min(x, y) == IF x <= y THEN x ELSE y

VARIABLES
    processing_mode,     \* self._processing_mode
    buffer_size,         \* self._buffer_size
    window_step,         \* self._window_step
    current,             \* self._current (the data property)
    window_index,        \* self._window_index
    offset,              \* self._offset
    raw_results,         \* self._raw_results
    formatted_results,   \* self._formatted_results
    dispatched,          \* history: the chunks the setter's loop has analyzed
    analyze_calls,       \* history: number of explicit analyze calls made
    twin,                \* history: for a sliding_window processor, the state
                         \* of a fixed_buffer processor of the same
                         \* buffer_size that is assigned the same data
    gen,                 \* the setter's running "for chunk in self._window"
                         \* loop (SpecLoop only; idle between calls)
    last                 \* history: the last operation, its argument, its
                         \* return value, its calls of self._rules.match and
                         \* the buffer's length when it began

vars == <<processing_mode, buffer_size, window_step, current, window_index,
          offset, raw_results, formatted_results, dispatched, analyze_calls,
          twin, gen, last>>

\* ------------------------------------------------------- python helpers
\* sequence[i:j] for 0 <= i <= j
PySlice(sequence, i, j) ==
    IF i >= Min(j, Len(sequence)) THEN <<>>
    ELSE SubSeq(sequence, i + 1, Min(j, Len(sequence)))

\* sequence[i:] for 0 <= i
PyFrom(sequence, i) == PySlice(sequence, i, Len(sequence))

\* binascii.hexlify of one byte of the alphabet, and of a byte string
HexByte(c) == IF c = "a" THEN <<"6", "1">> ELSE <<"6", "2">>

RECURSIVE hexlify(_)
hexlify(s) == IF s = <<>> THEN <<>> ELSE HexByte(Head(s)) \o hexlify(Tail(s))

\* ------------------------------------------------------------ the matcher
\* The compiled rules: each rule has one string and matches a buffer that
\* holds at least one occurrence of it.
Rules == << [rule |-> "rule_ab", id |-> "$ab", pattern |-> <<"a", "b">>],
            [rule |-> "rule_bb", id |-> "$bb", pattern |-> <<"b", "b">>] >>

\* local offsets at which pattern occurs in data
Occurrences(data, pattern) ==
    {i \in 0..(Len(data) - Len(pattern)) :
        PySlice(data, i, i + Len(pattern)) = pattern}

\* the elements of a finite set of integers, ascending
RECURSIVE Ascending(_)
Ascending(S) ==
    IF S = {} THEN <<>>
    ELSE LET m == CHOOSE x \in S : \A y \in S : x <= y
         IN <<m>> \o Ascending(S \ {m})

\* the strings attribute of a match: (offset, identifier, matched data)
MatchStrings(data, r) ==
    LET occ == Ascending(Occurrences(data, r.pattern))
    IN [k \in 1..Len(occ) |-> <<occ[k], r.id, r.pattern>>]

\* self._rules.match(data=data): one match object per rule that matches
RECURSIVE MatchFrom(_, _)
MatchFrom(data, n) ==
    IF n > Len(Rules) THEN <<>>
    ELSE (IF Occurrences(data, Rules[n].pattern) = {} THEN <<>>
          ELSE << [rule |-> Rules[n].rule,
                   strings |-> MatchStrings(data, Rules[n])] >>)
         \o MatchFrom(data, n + 1)

match(data) == MatchFrom(data, 1)

\* ------------------------------------------------------ Processor._window
RECURSIVE WindowFrom(_, _, _, _)
WindowFrom(sequence, i, size, step) ==
    LET result == PySlice(sequence, i, i + size)
    IN IF result = <<>> THEN <<>>
       ELSE <<result>> \o WindowFrom(sequence, i + step, size, step)

Window(sequence, size, step) == WindowFrom(sequence, 0, size, step)

\* ------------------------------------------------------ Processor.analyze
\* the argument of analyze: omitted (None) or an explicit byte string
NoArg == [given |-> FALSE, bytes |-> <<>>]
Arg(b) == [given |-> TRUE, bytes |-> b]

\* "if not data: data = self.data"
AnalyzeData(arg, cur) ==
    IF (~arg.given) \/ arg.bytes = <<>> THEN cur ELSE arg.bytes

\* one entry of result['strings']
FormatStringBad(base, s) ==
    [offset |-> base + s[1] + 1, rule_id |-> s[2], string |-> hexlify(s[3])]

FormatString(base, s) ==
    [offset |-> base + s[1], rule_id |-> s[2], string |-> hexlify(s[3])]

\* the formatted result of one match object
FormatResult(base, r) ==
    [result |-> r.rule,
     strings |-> [k \in 1..Len(r.strings) |-> FormatString(base, r.strings[k])],
     subtype |-> "scan_result"]

\* "if self._processing_mode == 'raw': self._offset += len(data)"
AnalyzeAdvanceBad(mode, data) == Len(data)

AnalyzeAdvance(mode, data) == IF mode = "raw" THEN Len(data) ELSE 0

\* analyze as a function of the processor's mutable fields:
\* st = [cur, raw, fmt, off, calls], calls being the history of match calls
AnalyzeOpDedup(st, arg) ==
    LET data == AnalyzeData(arg, st.cur)
        ms == match(data)
        new == [k \in 1..Len(ms) |-> FormatResult(st.off, ms[k])]
    IN [cur |-> st.cur,
        raw |-> st.raw \o SelectSeq(ms, LAMBDA m : \A i \in 1..Len(st.fmt) :
                                         st.fmt[i] # FormatResult(st.off, m)),
        fmt |-> st.fmt \o SelectSeq(new, LAMBDA f : \A i \in 1..Len(st.fmt) :
                                          st.fmt[i] # f),
        off |-> st.off + AnalyzeAdvance(processing_mode, data),
        calls |-> Append(st.calls, [data |-> data, base |-> st.off])]

AnalyzeOpPrepend(st, arg) ==
    LET data == AnalyzeData(arg, st.cur)
        ms == match(data)
    IN [cur |-> st.cur,
        raw |-> ms \o st.raw,
        fmt |-> [k \in 1..Len(ms) |-> FormatResult(st.off, ms[k])] \o st.fmt,
        off |-> st.off + AnalyzeAdvance(processing_mode, data),
        calls |-> Append(st.calls, [data |-> data, base |-> st.off])]

AnalyzeOp(st, arg) ==
    LET data == AnalyzeData(arg, st.cur)
        ms == match(data)
    IN [cur |-> st.cur,
        raw |-> st.raw \o ms,
        fmt |-> st.fmt \o [k \in 1..Len(ms) |-> FormatResult(st.off, ms[k])],
        off |-> st.off + AnalyzeAdvance(processing_mode, data),
        calls |-> Append(st.calls, [data |-> data, base |-> st.off])]

\* ------------------------------------------------- Processor.data (setter)
\* the advance of self._offset after a chunk has been analyzed
ChunkAdvanceBad(mode, chunk) ==
    IF mode \in {"fixed_buffer", "sliding_window"} THEN window_step ELSE 0

ChunkAdvance(mode, chunk) ==
    IF mode = "fixed_buffer" THEN Len(chunk)
    ELSE IF mode = "sliding_window" THEN window_step
    ELSE 0

\* the body of "for chunk in self._window(...)"
RECURSIVE Dispatch(_, _)
Dispatch(chunks, st) ==
    IF chunks = <<>> THEN st
    ELSE LET a == AnalyzeOp(st, Arg(Head(chunks)))
         IN Dispatch(Tail(chunks),
                     [a EXCEPT !.off = a.off + ChunkAdvance(processing_mode, Head(chunks))])

\* the mutable fields at the start of an operation
State == [cur |-> current, raw |-> raw_results, fmt |-> formatted_results,
          off |-> offset, calls |-> <<>>]

\* the condition under which the setter runs its loop
ReadyBad(value) ==
    /\ value # <<>>
    /\ Len(PyFrom(value, window_index)) >= buffer_size

Ready(value) ==
    /\ processing_mode # "raw"
    /\ value # <<>>
    /\ Len(PyFrom(value, window_index)) >= buffer_size

\* "self._window_index = len(self._current)", reached when the loop has run
NewWindowIndexBad(value) == window_index

NewWindowIndexAlways(value) == Len(value)

NewWindowIndex(value) == IF Ready(value) THEN Len(value) ELSE window_index

\* the setter of a fixed_buffer processor with this buffer_size, as a function
\* of its fields tw = [window_index, offset, chunks]; chunks is the history of
\* the chunks it has analyzed
TwinSetData(tw, value) ==
    LET rest == PyFrom(value, tw.window_index)
        ready == value # <<>> /\ Len(rest) >= buffer_size
        chunks == IF ready THEN Window(rest, buffer_size, buffer_size) ELSE <<>>
    IN [window_index |-> IF ready THEN Len(value) ELSE tw.window_index,
        offset |-> tw.offset + Len(rest) * (IF ready THEN 1 ELSE 0),
        chunks |-> tw.chunks \o chunks]

NoTwin == [window_index |-> 0, offset |-> 0, chunks |-> <<>>]

\* no loop is running
Idle == [pc |-> "idle", i |-> 0, sequence |-> <<>>, n |-> 0]

\* the setter; the k-th chunk of a pass starts at stream index
\* window_index + (k - 1) * window_step, which dispatched records with it,
\* together with the buffer's length after the assignment (upto); last.before
\* is the buffer's length before it
SetData(value) ==
    LET st0 == [State EXCEPT !.cur = value]
        rest == PyFrom(value, window_index)
        st == IF Ready(value)
              THEN Dispatch(Window(rest, buffer_size, window_step), st0)
              ELSE st0
    IN /\ current' = value
       /\ raw_results' = st.raw
       /\ formatted_results' = st.fmt
       /\ offset' = st.off
       /\ window_index' = NewWindowIndex(value)
       /\ dispatched' = dispatched \o
              [k \in 1..Len(st.calls) |->
                  [data |-> st.calls[k].data, base |-> st.calls[k].base,
                   start |-> window_index + (k - 1) * window_step,
                   upto |-> Len(value)]]
       /\ twin' = IF processing_mode = "sliding_window"
                  THEN TwinSetData(twin, value) ELSE twin
       /\ last' = [op |-> "append", arg |-> Arg(value), ret |-> <<>>,
                   calls |-> st.calls, before |-> Len(current)]
       /\ UNCHANGED <<processing_mode, buffer_size, window_step, analyze_calls,
                      gen>>

\* ---------------------------------------------------------------- actions
\* Processor.__init__ once the rules are loaded; raw mode keeps the default
\* window_step
InitStepKept ==
    /\ processing_mode \in {"raw", "fixed_buffer", "sliding_window"}
    /\ buffer_size \in 1..MaxSize
    /\ \E step \in 1..MaxStep :
          window_step = IF processing_mode = "raw" THEN 1 ELSE step
    /\ processing_mode = "raw" => buffer_size = MaxSize
    /\ raw_results = <<>>
    /\ formatted_results = <<>>
    /\ current = <<>>
    /\ window_index = 0
    /\ offset = 0
    /\ dispatched = <<>>
    /\ analyze_calls = 0
    /\ twin = NoTwin
    /\ gen = Idle
    /\ last = [op |-> "init", arg |-> NoArg, ret |-> <<>>, calls |-> <<>>,
               before |-> 0]

Init ==
    /\ processing_mode \in {"raw", "fixed_buffer", "sliding_window"}
    /\ buffer_size \in 1..MaxSize
    /\ \E step \in 1..MaxStep :
          window_step = IF processing_mode = "fixed_buffer" THEN buffer_size
                        ELSE IF processing_mode = "raw" THEN 1
                        ELSE step
    /\ processing_mode = "raw" => buffer_size = MaxSize
    /\ raw_results = <<>>
    /\ formatted_results = <<>>
    /\ current = <<>>
    /\ window_index = 0
    /\ offset = 0
    /\ dispatched = <<>>
    /\ analyze_calls = 0
    /\ twin = NoTwin
    /\ gen = Idle
    /\ last = [op |-> "init", arg |-> NoArg, ret |-> <<>>, calls |-> <<>>,
               before |-> 0]

\* p.data += value
AppendData(value) ==
    /\ Len(current) + Len(value) <= MaxStream
    /\ SetData(current \o value)

\* p.analyze(arg)
Analyze(arg) ==
    /\ analyze_calls < MaxAnalyze
    /\ LET st == AnalyzeOp(State, arg)
       IN /\ raw_results' = st.raw
          /\ formatted_results' = st.fmt
          /\ offset' = st.off
          /\ last' = [op |-> "analyze", arg |-> arg, ret |-> st.fmt,
                      calls |-> st.calls, before |-> Len(current)]
    /\ analyze_calls' = analyze_calls + 1
    /\ UNCHANGED <<processing_mode, buffer_size, window_step, current,
                   window_index, dispatched, twin, gen>>

\* p.results
results == formatted_results

\* p.clear_results()
ClearResultsBad ==
    /\ raw_results' = <<>>
    /\ formatted_results' = <<>>
    /\ offset' = 0
    /\ last' = [op |-> "clear", arg |-> NoArg, ret |-> <<>>, calls |-> <<>>,
                before |-> Len(current)]
    /\ UNCHANGED <<processing_mode, buffer_size, window_step, current,
                   window_index, dispatched, analyze_calls, twin, gen>>

ClearResults ==
    /\ raw_results' = <<>>
    /\ formatted_results' = <<>>
    /\ last' = [op |-> "clear", arg |-> NoArg, ret |-> <<>>, calls |-> <<>>,
                before |-> Len(current)]
    /\ UNCHANGED <<processing_mode, buffer_size, window_step, current,
                   window_index, offset, dispatched, analyze_calls, twin, gen>>

\* the arguments analyze is called with: none, the empty string, and strings
\* with and without a match
AnalyzeArgs == {NoArg, Arg(<<>>), Arg(<<"a">>), Arg(<<"a", "b">>)}

Next ==
    \/ \E value \in Bytes(1, MaxStream - Len(current)) : AppendData(value)
    \/ \E arg \in AnalyzeArgs : Analyze(arg)
    \/ ClearResults

Spec == Init /\ [][Next]_vars

\* ------------------------------------------------------ matcher failures
\* The setter when self._rules.match raises in the n-th iteration of its
\* loop: the iterations before it are complete, the exception leaves the
\* loop and the setter, and line 307 is not reached.  last.failed is the
\* number of the failing call, last.calls are the calls that returned.
\* (twin is followed in the runs without failures only.)
SetDataRaisesRollback(value, n) ==
    /\ Ready(value)
    /\ n \in 1..Len(Window(PyFrom(value, window_index), buffer_size, window_step))
    /\ current' = value
    /\ last' = [op |-> "append_raised", arg |-> Arg(value), ret |-> <<>>,
                calls |-> <<>>, before |-> Len(current), failed |-> n]
    /\ UNCHANGED <<processing_mode, buffer_size, window_step, window_index,
                   offset, raw_results, formatted_results, dispatched,
                   analyze_calls, twin, gen>>

SetDataRaises(value, n) ==
    LET st0 == [State EXCEPT !.cur = value]
        chunks == Window(PyFrom(value, window_index), buffer_size, window_step)
        st == Dispatch(SubSeq(chunks, 1, n - 1), st0)
    IN /\ Ready(value)
       /\ n \in 1..Len(chunks)
       /\ current' = value
       /\ raw_results' = st.raw
       /\ formatted_results' = st.fmt
       /\ offset' = st.off
       /\ dispatched' = dispatched \o
              [k \in 1..Len(st.calls) |->
                  [data |-> st.calls[k].data, base |-> st.calls[k].base,
                   start |-> window_index + (k - 1) * window_step,
                   upto |-> Len(value)]]
       /\ last' = [op |-> "append_raised", arg |-> Arg(value), ret |-> <<>>,
                   calls |-> st.calls, before |-> Len(current), failed |-> n]
       /\ UNCHANGED <<processing_mode, buffer_size, window_step, window_index,
                      analyze_calls, twin, gen>>

\* p.data += value, the matcher failing on the n-th chunk
AppendDataRaises(value, n) ==
    /\ Len(current) + Len(value) <= MaxStream
    /\ SetDataRaises(current \o value, n)

\* p.analyze(arg), the matcher failing: line 217 raises before any assignment
AnalyzeRaises(arg) ==
    /\ analyze_calls < MaxAnalyze
    /\ last' = [op |-> "analyze_raised", arg |-> arg, ret |-> <<>>,
                calls |-> <<>>, before |-> Len(current), failed |-> 1]
    /\ analyze_calls' = analyze_calls + 1
    /\ UNCHANGED <<processing_mode, buffer_size, window_step, current,
                   window_index, offset, raw_results, formatted_results,
                   dispatched, twin, gen>>

\* appends and analyze calls with a matcher that may fail
NextFail ==
    \/ \E value \in Bytes(1, MaxStream - Len(current)) : AppendData(value)
    \/ \E value \in Bytes(1, MaxStream - Len(current)) :
          \E n \in 1..MaxStream : AppendDataRaises(value, n)
    \/ \E arg \in {NoArg, Arg(<<"a", "b">>)} : AnalyzeRaises(arg)

SpecFail == Init /\ [][NextFail]_vars

\* ---------------------------------------------------------------------------
\* Assignments that replace the buffer.  "p.data = value" runs the same setter
\* with a value that need not extend the buffer held.

\* p.data = value
AssignData(value) ==
    /\ Len(value) <= MaxStream
    /\ SetData(value)

\* the values assigned: every length up to MaxStream, the empty string
\* included, with the bytes "abab..." so that windows over them have matches
AssignValues ==
    {v \in Bytes(0, MaxStream) :
        \A k \in 1..Len(v) : v[k] = (IF k % 2 = 1 THEN "a" ELSE "b")}

NextAssign ==
    \/ \E value \in AssignValues : AssignData(value)
    \/ \E arg \in {NoArg, Arg(<<"a", "b">>)} : Analyze(arg)
    \/ ClearResults

SpecAssign == Init /\ [][NextAssign]_vars

\* ---------------------------------------------------------------------------
\* The setter's loop, one iteration at a time.  gen holds the frame of the
\* generator _window: its sequence, its index i and the number n of slices it
\* has yielded; pc is "loop" while the setter is inside its for statement.

\* "i = i + step"
NextIStuck(i) == i

NextI(i) == i + window_step

\* "self._current = value" and the two conditions; the generator is created
\* over the unconsumed bytes when they hold
BeginSetData(value) ==
    /\ gen.pc = "idle"
    /\ current' = value
    /\ gen' = IF Ready(value)
              THEN [pc |-> "loop", i |-> 0,
                    sequence |-> PyFrom(value, window_index), n |-> 0]
              ELSE Idle
    /\ last' = [op |-> "append", arg |-> Arg(value), ret |-> <<>>,
                calls |-> <<>>, before |-> Len(current)]
    /\ UNCHANGED <<processing_mode, buffer_size, window_step, window_index,
                   offset, raw_results, formatted_results, dispatched,
                   analyze_calls, twin>>

\* p.data += value, up to the for statement
BeginAppendData(value) ==
    /\ Len(current) + Len(value) <= MaxStream
    /\ BeginSetData(current \o value)

\* one turn of the for statement: the generator takes its next slice; an
\* empty one ends the loop and line 307 stores the index, any other is
\* yielded, analyzed and counted
WindowStep ==
    /\ gen.pc = "loop"
    /\ LET result == PySlice(gen.sequence, gen.i, gen.i + buffer_size)
           st == AnalyzeOp([State EXCEPT !.calls = last.calls], Arg(result))
       IN IF result = <<>>
          THEN /\ window_index' = Len(current)
               /\ gen' = [gen EXCEPT !.pc = "idle"]
               /\ UNCHANGED <<offset, raw_results, formatted_results,
                              dispatched, last>>
          ELSE /\ gen' = [gen EXCEPT !.i = NextI(gen.i), !.n = gen.n + 1]
               /\ raw_results' = st.raw
               /\ formatted_results' = st.fmt
               /\ offset' = st.off + ChunkAdvance(processing_mode, result)
               /\ dispatched' = Append(dispatched,
                      [data |-> result, base |-> offset,
                       start |-> window_index + gen.i, upto |-> Len(current)])
               /\ last' = [last EXCEPT !.calls = st.calls]
               /\ UNCHANGED window_index
    /\ UNCHANGED <<processing_mode, buffer_size, window_step, current,
                   analyze_calls, twin>>

\* the appends build the stream "abab..." in pieces of every length: the
\* turns the loop takes depend on the lengths only
NextLoop ==
    \/ \E value \in Bytes(1, MaxStream - Len(current)) :
          /\ current \o value \in AssignValues
          /\ BeginAppendData(value)
    \/ WindowStep

\* the setter is straight-line code around matcher calls that return: a loop
\* that can take a turn takes it
SpecLoop == Init /\ [][NextLoop]_vars /\ WF_vars(WindowStep)

\* ------------------------------------------------- the mode's validation
\* the values of processing_mode explored: the three modes, a spelling of each
\* in other letter case, and a name that is no mode
ModeNames == {"raw", "fixed_buffer", "sliding_window",
              "RAW", "Fixed_Buffer", "Sliding_Window", "stream"}

\* str.lower on these names
Lower(name) ==
    CASE name = "RAW" -> "raw"
      [] name = "Fixed_Buffer" -> "fixed_buffer"
      [] name = "Sliding_Window" -> "sliding_window"
      [] OTHER -> name

\* self._allowed_modes
AllowedModes == {"raw", "fixed_buffer", "sliding_window"}

\* Processor.__init__ with any of the names: it raises ProcessorException when
\* the lower-cased name is no allowed mode (no processor exists then, which
\* last.op records), and otherwise stores the name as given
InitModes ==
    /\ processing_mode \in ModeNames
    /\ buffer_size \in 1..MaxSize
    /\ \E step \in 1..MaxStep :
          window_step = IF processing_mode = "fixed_buffer" THEN buffer_size
                        ELSE IF processing_mode = "raw" THEN 1
                        ELSE step
    /\ processing_mode = "raw" => buffer_size = MaxSize
    /\ raw_results = <<>>
    /\ formatted_results = <<>>
    /\ current = <<>>
    /\ window_index = 0
    /\ offset = 0
    /\ dispatched = <<>>
    /\ analyze_calls = 0
    /\ twin = NoTwin
    /\ gen = Idle
    /\ last = [op |-> IF Lower(processing_mode) \in AllowedModes
                      THEN "init" ELSE "ProcessorException",
               arg |-> NoArg, ret |-> <<>>, calls |-> <<>>, before |-> 0]

\* the operations of a processor that was constructed
NextModes == last.op # "ProcessorException" /\ Next

SpecModes == InitModes /\ [][NextModes]_vars

\* ------------------------------------------------------------- properties
\* total length of the chunks of a log
RECURSIVE SumLen(_)
SumLen(log) == IF log = <<>> THEN 0 ELSE Len(Head(log).data) + SumLen(Tail(log))

\* the data of the chunks of a log
ChunkData(log) == [k \in 1..Len(log) |-> log[k].data]

\* sanity of the history: every dispatched chunk is a non-empty slice of the
\* stream that starts at the recorded start; the two result lists go together
HistoryOK ==
    /\ \A k \in 1..Len(dispatched) :
          /\ dispatched[k].data # <<>>
          /\ dispatched[k].data =
                PySlice(current, dispatched[k].start,
                        dispatched[k].start + Len(dispatched[k].data))
    /\ Len(raw_results) = Len(formatted_results)

\* C1: the sequence analyze returns holds exactly one record per rule match
\* the matcher reports for the bytes of that call, and is empty when the
\* matcher reports none, whatever was analyzed before.
C1_AnalyzeReturnsThisCallOnly ==
    last.op = "analyze" =>
        /\ Len(last.ret) = Len(match(last.calls[1].data))
        /\ (match(last.calls[1].data) = <<>> => last.ret = <<>>)

\* C2: on a raw-mode processor whose first analyze call has no argument, the
\* call scans the whole buffer, returns a non-empty sequence exactly when the
\* matcher reports a match on the buffer, and every returned string hit
\* carries the matcher's local offset.
C2_FreshRawAnalyze ==
    (processing_mode = "raw" /\ last.op = "analyze" /\ analyze_calls = 1
        /\ ~last.arg.given) =>
        /\ Len(last.calls) = 1
        /\ last.calls[1].data = current
        /\ (last.ret # <<>>) <=> (match(current) # <<>>)
        /\ Len(last.ret) = Len(match(current))
        /\ \A k \in 1..Len(last.ret) :
              /\ Len(last.ret[k].strings) = Len(match(current)[k].strings)
              /\ \A j \in 1..Len(last.ret[k].strings) :
                    /\ last.ret[k].strings[j].offset = match(current)[k].strings[j][1]
                    /\ last.ret[k].strings[j].offset \in
                          Occurrences(current, match(current)[k].strings[j][3])

\* a first no-argument analyze in raw mode that reports "ab" at offset 2 of "bbab"
C2_Witness ==
    /\ processing_mode = "raw" /\ last.op = "analyze" /\ analyze_calls = 1
    /\ ~last.arg.given
    /\ current = <<"b", "b", "a", "b">>
    /\ \E k \in 1..Len(last.ret) :
          last.ret[k].result = "rule_ab" /\ last.ret[k].strings[1].offset = 2

\* C3: in fixed_buffer and sliding_window mode every chunk the setter's loop
\* hands to the matcher has length exactly buffer_size.
C3_OnlyFullChunks ==
    processing_mode # "raw" =>
        \A k \in 1..Len(dispatched) : Len(dispatched[k].data) = buffer_size

\* C4: in fixed_buffer mode, after appends totalling T bytes, the dispatched
\* chunks are exactly stream[k*size : (k+1)*size] for k = 0 .. T div size - 1,
\* in that order.
C4_FixedChunksTileStream ==
    processing_mode = "fixed_buffer" =>
        ChunkData(dispatched) =
            [k \in 1..(Len(current) \div buffer_size) |->
                PySlice(current, (k - 1) * buffer_size, k * buffer_size)]

\* C5: in sliding_window mode a single append of L >= size bytes to a fresh
\* processor dispatches exactly the full windows buffer[k*step : k*step+size]
\* with k*step + size <= L, in increasing k, the k-th with base k*step.
C5_FirstAppendFullWindows ==
    (processing_mode = "sliding_window" /\ last.op = "append"
        /\ analyze_calls = 0 /\ last.before = 0
        /\ Len(current) >= buffer_size) =>
        last.calls =
            [k \in 1..((Len(current) - buffer_size) \div window_step + 1) |->
                [data |-> PySlice(current, (k - 1) * window_step,
                                  (k - 1) * window_step + buffer_size),
                 base |-> (k - 1) * window_step]]

\* C6: in sliding_window mode the base offset used for every dispatched window
\* is the stream index at which that window starts.
C6_SlidingBaseIsStreamIndex ==
    processing_mode = "sliding_window" =>
        \A k \in 1..Len(dispatched) : dispatched[k].base = dispatched[k].start

\* C7: in fixed_buffer mode the offset equals the summed length of the chunks
\* dispatched so far, and never counts bytes that are buffered only.
C7_FixedOffsetIsDispatchedBytes ==
    processing_mode = "fixed_buffer" =>
        /\ offset = SumLen(dispatched)
        /\ offset <= Len(current)

\* fixed_buffer: two chunks dispatched, the second one short, more bytes
\* appended since and left buffered
C7_Witness ==
    /\ processing_mode = "fixed_buffer"
    /\ Len(dispatched) >= 2
    /\ Len(dispatched[2].data) < buffer_size
    /\ offset > 0
    /\ offset < Len(current)

\* C8: analyze invokes the matcher exactly once, on exactly the bytes given,
\* and on the whole buffer only when the argument is omitted.
C8_AnalyzeScansGivenBytes ==
    last.op = "analyze" =>
        /\ Len(last.calls) = 1
        /\ last.calls[1].data = IF last.arg.given THEN last.arg.bytes ELSE current

\* C9: an analyze call translates every hit with the offset held when the
\* call starts; afterwards the offset grows by the length of the analyzed
\* bytes in raw mode only; in the other modes the call leaves offset,
\* window_index and the buffer as they are.
C9_AnalyzeOffsetFrame ==
    [][analyze_calls' # analyze_calls =>
        /\ Len(formatted_results') = Len(raw_results')
        /\ \A k \in (Len(formatted_results) + 1)..Len(formatted_results') :
              \A j \in 1..Len(formatted_results'[k].strings) :
                  formatted_results'[k].strings[j].offset =
                      offset + raw_results'[k].strings[j][1]
        /\ last'.calls[1].base = offset
        /\ current' = current
        /\ window_index' = window_index
        /\ offset' = IF processing_mode = "raw"
                     THEN offset + Len(last'.calls[1].data)
                     ELSE offset
      ]_vars

\* a second raw-mode analyze that reports a hit on top of a non-zero offset
C9_Witness ==
    /\ processing_mode = "raw" /\ last.op = "analyze" /\ analyze_calls = 2
    /\ last.calls[1].base > 0
    /\ match(last.calls[1].data) # <<>>
    /\ offset = last.calls[1].base + Len(last.calls[1].data)

\* C10: clear_results empties both result lists and changes nothing else:
\* the buffer, window_index, offset and the mode parameters, which are all
\* the setter reads to choose the slices and base offsets of later appends,
\* are the same before and after.
C10_ClearFrame ==
    [][last'.op = "clear" =>
        /\ formatted_results' = <<>>
        /\ raw_results' = <<>>
        /\ current' = current
        /\ window_index' = window_index
        /\ offset' = offset
        /\ <<processing_mode, buffer_size, window_step>>' =
              <<processing_mode, buffer_size, window_step>>
      ]_vars

\* a clear in sliding_window mode after chunks with matches were dispatched
C10_Witness ==
    /\ last.op = "clear"
    /\ processing_mode = "sliding_window"
    /\ offset > 0
    /\ \E k \in 1..Len(dispatched) : match(dispatched[k].data) # <<>>
    /\ formatted_results = <<>>

\* s is a prefix of t
IsPrefix(s, t) == Len(s) <= Len(t) /\ SubSeq(t, 1, Len(s)) = s

\* C11: in raw mode an append only extends the buffer: it calls the matcher
\* not at all and leaves the results, offset and window_index alone; hence
\* the first analyze() returns the records of the whole buffer with the
\* matcher's offsets, in however many appends the buffer was fed.
C11_RawAppendOnlyBuffers ==
    /\ [][(processing_mode = "raw" /\ current' # current) =>
            /\ last'.op = "append"
            /\ last'.calls = <<>>
            /\ IsPrefix(current, current')
            /\ formatted_results' = formatted_results
            /\ raw_results' = raw_results
            /\ offset' = offset
            /\ window_index' = window_index
            /\ dispatched' = dispatched
         ]_vars
    /\ []((processing_mode = "raw" /\ last.op = "analyze" /\ analyze_calls = 1
             /\ ~last.arg.given) =>
            last.ret = [k \in 1..Len(match(current)) |->
                           FormatResult(0, match(current)[k])])

\* a raw-mode append to a non-empty buffer, made after an analyze call that
\* found matches and advanced the offset
C11_Witness ==
    /\ processing_mode = "raw" /\ last.op = "append"
    /\ last.before > 0
    /\ formatted_results # <<>>
    /\ offset > 0
    /\ Len(current) > offset

\* the entries of dispatched that the last operation added
LastChunks ==
    SubSeq(dispatched, Len(dispatched) - Len(last.calls) + 1, Len(dispatched))

\* the number of rule matches the matcher reports for the chunks of a log
RECURSIVE MatchCount(_)
MatchCount(log) ==
    IF log = <<>> THEN 0 ELSE Len(match(Head(log).data)) + MatchCount(Tail(log))

\* the records the last append added to the results
LastRecords ==
    SubSeq(formatted_results,
           Len(formatted_results) - MatchCount(last.calls) + 1,
           Len(formatted_results))

\* the number of string hits of rule at offset q in records
HitCount(records, rule, q) ==
    Cardinality({ij \in {<<i, j>> : i \in 1..Len(records), j \in 1..MaxStream} :
        /\ records[ij[1]].result = rule
        /\ ij[2] <= Len(records[ij[1]].strings)
        /\ records[ij[1]].strings[ij[2]].offset = q})

\* the chunks of a log that contain stream positions [p, p + m)
Containing(log, p, m) ==
    {k \in 1..Len(log) :
        log[k].start <= p /\ p + m <= log[k].start + Len(log[k].data)}

\* C12: sliding_window with step < size: after an append, an occurrence of a
\* pattern at stream positions [p, p + m) is reported by as many of the
\* append's records as the append dispatched windows that contain [p, p + m);
\* nothing is deduplicated.  (Every window of one append is translated with
\* the same displacement base - start, which is 0 on the first pass.)
C12_NoDeduplication ==
    (processing_mode = "sliding_window" /\ window_step < buffer_size
        /\ last.op = "append" /\ last.calls # <<>>) =>
        /\ MatchCount(last.calls) <= Len(formatted_results)
        /\ \A n \in 1..Len(Rules) :
              \A p \in Occurrences(current, Rules[n].pattern) :
                  HitCount(LastRecords, Rules[n].rule,
                           p + last.calls[1].base - LastChunks[1].start)
                      = Cardinality(Containing(LastChunks, p, Len(Rules[n].pattern)))

\* "bbb", size 3, step 1: the occurrence of "bb" at positions [1, 3) lies in
\* the windows that start at 0 and at 1 and is reported by two records
C12_Witness ==
    /\ processing_mode = "sliding_window" /\ window_step < buffer_size
    /\ last.op = "append" /\ last.calls # <<>>
    /\ \E p \in Occurrences(current, <<"b", "b">>) :
          /\ Cardinality(Containing(LastChunks, p, 2)) = 2
          /\ HitCount(LastRecords, "rule_bb", p) = 2

\* C13 as claimed: a sliding_window session with step >= size dispatches the
\* same chunks as a fixed_buffer session of the same size fed the same appends.
C13_StepAtLeastSizeLikeFixed ==
    (processing_mode = "sliding_window" /\ window_step >= buffer_size) =>
        ChunkData(dispatched) = twin.chunks

\* C13, amended: a sliding_window session with step = size dispatches the same
\* chunks, at the same appends, as a fixed_buffer session of the same size fed
\* the same appends; the two differ in the offset only, which advances by step
\* per chunk in the one and by the chunk's length in the other.
C13_StepEqualSizeLikeFixed ==
    (processing_mode = "sliding_window" /\ window_step = buffer_size) =>
        /\ ChunkData(dispatched) = twin.chunks
        /\ window_index = twin.window_index
        /\ offset = window_step * Len(dispatched)
        /\ twin.offset = SumLen(dispatched)

\* step = size = 2: chunks "xx" and a short one; the offsets 4 and 3 differ
C13_Witness ==
    /\ processing_mode = "sliding_window" /\ window_step = buffer_size
    /\ Len(dispatched) >= 2
    /\ twin.chunks = ChunkData(dispatched)
    /\ offset > twin.offset

\* the records the matcher's reports for the chunks of a log are formatted to
RECURSIVE RecordsOf(_)
RecordsOf(log) ==
    IF log = <<>> THEN <<>>
    ELSE [k \in 1..Len(match(Head(log).data)) |->
             FormatResult(Head(log).base, match(Head(log).data)[k])]
         \o RecordsOf(Tail(log))

\* the offset advances the setter makes for the chunks of a log
RECURSIVE AdvanceOf(_)
AdvanceOf(log) ==
    IF log = <<>> THEN 0
    ELSE ChunkAdvance(processing_mode, Head(log).data) + AdvanceOf(Tail(log))

\* C14: a matcher failure ends the call with the exception and rolls nothing
\* back: after a failed append the buffer is the assigned data, the offset has
\* the advances of the chunks analyzed before the failing one, their records
\* are in the results and window_index is as before the call; a failed analyze
\* changes nothing.
C14_FailureKeepsPartialState ==
    [][/\ last'.op = "append_raised" =>
            /\ current' = last'.arg.bytes
            /\ IsPrefix(current, current') /\ current' # current
            /\ window_index' = window_index
            /\ offset' = offset + AdvanceOf(last'.calls)
            /\ formatted_results' = formatted_results \o RecordsOf(last'.calls)
            /\ Len(raw_results') = Len(formatted_results')
            /\ IsPrefix(raw_results, raw_results')
            /\ Len(last'.calls) = last'.failed - 1
            /\ last'.failed <=
                  Len(Window(PyFrom(current', window_index), buffer_size,
                             window_step))
            /\ \A k \in 1..Len(last'.calls) :
                  last'.calls[k].data =
                      Window(PyFrom(current', window_index), buffer_size,
                             window_step)[k]
       /\ last'.op = "analyze_raised" =>
            /\ current' = current
            /\ window_index' = window_index
            /\ offset' = offset
            /\ formatted_results' = formatted_results
            /\ raw_results' = raw_results
      ]_vars

\* an append whose second or later chunk failed, after a chunk with a match
C14_Witness ==
    /\ last.op = "append_raised"
    /\ last.failed >= 2 /\ last.calls # <<>>
    /\ MatchCount(last.calls) > 0
    /\ offset > 0
    /\ window_index < Len(current)
    /\ formatted_results # <<>>

\* C15: construction fails exactly for the names that are no mode, and a
\* processor constructed with a name the validation accepts runs the policy
\* of the lower-cased name: raw never dispatches in an append, fixed_buffer has
\* window_step = buffer_size and counts the dispatched bytes, sliding_window
\* advances the offset by window_step per dispatched window.
C15_AcceptedNamesRunTheirPolicy ==
    /\ (last.op = "ProcessorException") <=> (Lower(processing_mode) \notin AllowedModes)
    /\ last.op # "ProcessorException" =>
          /\ Lower(processing_mode) = "raw" => dispatched = <<>>
          /\ Lower(processing_mode) = "fixed_buffer" =>
                window_step = buffer_size /\ offset = SumLen(dispatched)
          /\ Lower(processing_mode) = "sliding_window" =>
                offset = window_step * Len(dispatched)

\* C16: an append or an analyze call only adds records, behind the ones
\* there are and in the order of its matcher calls; the raw and the formatted
\* list have the same length and their i-th entries stem from the same match;
\* the results read are the same as long as neither list is assigned.
C16_ResultsGrowInOrder ==
    /\ [][last'.op \in {"append", "analyze"} =>
            /\ IsPrefix(formatted_results, formatted_results')
            /\ IsPrefix(raw_results, raw_results')
            /\ formatted_results' = formatted_results \o RecordsOf(last'.calls)
         ]_vars
    /\ [][UNCHANGED <<formatted_results, raw_results>> => results' = results]_vars
    /\ [](/\ Len(raw_results) = Len(formatted_results)
          /\ results = formatted_results
          /\ \A i \in 1..Len(formatted_results) :
                /\ formatted_results[i].result = raw_results[i].rule
                /\ formatted_results[i].subtype = "scan_result"
                /\ Len(formatted_results[i].strings) = Len(raw_results[i].strings)
                /\ \A j \in 1..Len(raw_results[i].strings) :
                      /\ formatted_results[i].strings[j].rule_id =
                            raw_results[i].strings[j][2]
                      /\ formatted_results[i].strings[j].string =
                            hexlify(raw_results[i].strings[j][3])
                      /\ formatted_results[i].strings[j].offset >=
                            raw_results[i].strings[j][1])

\* an append that added the records of two chunks behind older records
C16_Witness ==
    /\ last.op = "append"
    /\ Len(last.calls) >= 2
    /\ match(last.calls[1].data) # <<>>
    /\ match(last.calls[2].data) # <<>>
    /\ Len(formatted_results) > MatchCount(last.calls)

\* C17: whatever is assigned to data (an extension of the buffer or any other
\* value, a shorter one included), and whatever analyze and clear_results
\* calls are made, no step lowers window_index or offset.
C17_IndexAndOffsetNeverDecrease ==
    [][window_index' >= window_index /\ offset' >= offset]_vars

\* an assignment has replaced the buffer by a shorter one, below the index
\* an earlier pass had reached
C17_Witness ==
    /\ last.op = "append"
    /\ Len(current) < last.before
    /\ current # <<>>
    /\ Len(current) < window_index
    /\ offset > 0

\* the chunks of a log, joined in dispatch order
RECURSIVE Concat(_)
Concat(log) == IF log = <<>> THEN <<>> ELSE Head(log).data \o Concat(Tail(log))

\* C18: in fixed_buffer mode, whatever window_step was passed, the chunks
\* dispatched so far follow one another without overlap or gap and, joined in
\* dispatch order, are buffer[0 : window_index]; offset equals window_index
\* between calls, and every chunk was matched with its stream index as base.
C18_FixedChunksPartitionConsumed ==
    processing_mode = "fixed_buffer" =>
        /\ Concat(dispatched) = PySlice(current, 0, window_index)
        /\ offset = window_index
        /\ \A k \in 1..Len(dispatched) :
              /\ dispatched[k].base = dispatched[k].start
              /\ dispatched[k].start =
                    IF k = 1 THEN 0
                    ELSE dispatched[k - 1].start + Len(dispatched[k - 1].data)

\* fixed_buffer: a full and a short chunk dispatched, an analyze call made,
\* and bytes appended since that wait in the buffer
C18_Witness ==
    /\ processing_mode = "fixed_buffer"
    /\ buffer_size >= 2
    /\ Len(dispatched) >= 2
    /\ \E k \in 1..Len(dispatched) : Len(dispatched[k].data) < buffer_size
    /\ analyze_calls >= 1
    /\ 0 < window_index
    /\ window_index < Len(current)

\* C19 as claimed: every chunk dispatched during an append consists only of
\* bytes supplied by that append.
C19_ChunksWithinOneAppend ==
    last.op = "append" =>
        \A k \in 1..Len(LastChunks) : LastChunks[k].start >= last.before

\* C19, amended: a chunk never holds bytes that were in the buffer when an
\* earlier pass of the loop ended: it is a slice of the buffer that starts at
\* or behind the length the buffer had at every earlier pass.  Bytes of
\* appends that started no pass are dispatched together with later bytes.
C19_ChunksStartBehindEarlierPasses ==
    \A k \in 1..Len(dispatched) :
        /\ dispatched[k].data =
              PySlice(current, dispatched[k].start,
                      dispatched[k].start + Len(dispatched[k].data))
        /\ \A j \in 1..(k - 1) :
              dispatched[j].upto < dispatched[k].upto =>
                  dispatched[k].start >= dispatched[j].upto

\* after an earlier pass, an append too short to start one and then an append
\* whose first chunk holds bytes of both
C19_Witness ==
    /\ last.op = "append"
    /\ Len(dispatched) > Len(last.calls)
    /\ last.calls # <<>>
    /\ LastChunks[1].start < last.before
    /\ LastChunks[1].start + Len(LastChunks[1].data) > last.before

\* C20: every append returns: the generator yields at most as many slices as
\* it has bytes, the k-th starting k * step bytes in, so the loop makes
\* finitely many matcher calls and then ends; the call returns with
\* window_index at the buffer's length when the loop ran, and with
\* window_index unchanged when fewer than size unconsumed bytes were there.
C20_AppendTerminates ==
    /\ [](gen.pc = "loop" =>
             /\ gen.i = gen.n * window_step
             /\ gen.n <= Len(gen.sequence)
             /\ Len(last.calls) = gen.n
             /\ gen.sequence = PyFrom(current, window_index))
    /\ [][/\ (gen.pc = "loop" /\ gen'.pc = "idle") =>
                /\ gen.n >= 1
                /\ window_index' = Len(current)
          /\ (gen.pc = "idle" /\ gen'.pc = "idle") =>
                /\ Len(current') - window_index < buffer_size
                      \/ processing_mode = "raw"
                /\ window_index' = window_index
          /\ (gen.pc = "idle" /\ gen'.pc = "loop") =>
                Len(current') - window_index >= buffer_size
         ]_vars
    /\ (gen.pc = "loop") ~> (gen.pc = "idle")

\* an append has returned after a loop of three matcher calls
C20_Witness ==
    /\ gen.pc = "idle"
    /\ gen.n >= 3
    /\ last.op = "append"
    /\ Len(last.calls) = gen.n
    /\ window_index = Len(current)

====
